---- MODULE Spec2Model ----
(***************************************************************************)
(* A state-machine model of src/Starsilk.tsx: the Starsilk component's     *)
(* canvas effect (layout engine, node physics, frame loop, surges,         *)
(* particles, star field) together with the React wiring that drives it    *)
(* (configuration state, the re-layout effects, the listeners, teardown).  *)
(*                                                                         *)
(* JavaScript numbers are modelled in fixed point:                         *)
(*   positions and velocities  in 1/PosScale pixel,                        *)
(*   stream clocks             in 1/TimeScale time unit,                   *)
(*   sines, unit vectors       in 1/TrigScale,                             *)
(*   Math.random() values      in 1/RandScale,                             *)
(*   angles                    in 1/1000 radian.                           *)
(* A division by zero yields the non-finite marker NaN, as it does in JS.  *)
(***************************************************************************)
EXTENDS Integers, Sequences, FiniteSets, TLC

PosScale == 10
TimeScale == 100
TrigScale == 1000
RandScale == 1000

\* ------------------------------------------------------------ numerics

Abs(a) == IF a < 0 THEN -a ELSE a
Max(a, b) == IF a > b THEN a ELSE b
Min(a, b) == IF a < b THEN a ELSE b

\* a / b rounded to the nearest integer (b > 0)
RDiv(a, b) == IF a >= 0 THEN (a + b \div 2) \div b ELSE -((b \div 2 - a) \div b)

\* The marker of a non-finite JS number (NaN, Infinity).
NaN == -999999999
IsNaN(a) == a = NaN

\* JS division a / b for a divisor that may be 0.
JsDiv(a, b) == IF IsNaN(a) \/ IsNaN(b) \/ b = 0 THEN NaN ELSE RDiv(a, b)
JsAdd(a, b) == IF IsNaN(a) \/ IsNaN(b) THEN NaN ELSE a + b
JsSub(a, b) == IF IsNaN(a) \/ IsNaN(b) THEN NaN ELSE a - b
JsMul(a, b) == IF IsNaN(a) \/ IsNaN(b) THEN NaN ELSE a * b
JsScale(a, num, den) == IF IsNaN(a) THEN NaN ELSE RDiv(a * num, den)

\* The sequence f with every element evaluated (once)
Fix(f) == f \o << >>

\* const v = e, const a = e1, b = e2: the values named in what follows
Let(e, F(_)) == F(e)
Let2(e1, e2, F(_, _)) == F(e1, e2)

\* Newton's iteration for floor(sqrt(n)), from a guess x >= sqrt(n), x > 0
RECURSIVE IsqrtFrom(_, _)
IsqrtFrom(n, x) ==
    Let((x + n \div x) \div 2, LAMBDA y : IF y >= x THEN x ELSE IsqrtFrom(n, y))

\* Math.hypot; long vectors are scaled down before squaring (32-bit integers).
Hypot(dx, dy) ==
    IF IsNaN(dx) \/ IsNaN(dy) THEN NaN
    ELSE IF dx = 0 /\ dy = 0 THEN 0
    ELSE Let(1 + Max(Abs(dx), Abs(dy)) \div 30000, LAMBDA k :
             Let2(Abs(dx) \div k, Abs(dy) \div k, LAMBDA a, b :
                 k * IsqrtFrom(a * a + b * b, a + b)))

\* dx*dx + dy*dy, saturating where the 32-bit product would overflow.
SumSq(dx, dy) ==
    IF IsNaN(dx) \/ IsNaN(dy) THEN NaN
    ELSE IF Abs(dx) > 30000 \/ Abs(dy) > 30000 THEN 1800000000
    ELSE dx * dx + dy * dy

\* Math.PI in 1/1000 radian
Pi == 3142

\* Math.sin of an angle in 1/1000 radian, in 1/TrigScale (Bhaskara's rational
\* approximation on [0, pi], error below 0.002).
SinHalf(y) ==
    Let(y * (Pi - y), LAMBDA p :
        (16 * TrigScale * (p \div 100)) \div ((5 * Pi * Pi - 4 * p) \div 100))

\* The angle a reduced modulo 2 pi = 6.283185 (the whole turns are taken out with
\* the excess of 2 * Pi over 2 pi, 0.815 / 1000 radian a turn, given back).
Reduce(a) ==
    Let(a \div (2 * Pi), LAMBDA q : (a - q * (2 * Pi) + RDiv(q * 815, 1000)) % (2 * Pi))

Sin(a) == Let(Reduce(a), LAMBDA m : IF m <= Pi THEN SinHalf(m) ELSE -SinHalf(m - Pi))

Cos(a) == Sin(a + Pi \div 2)

\* a length in pixels, in position units
Px(p) == p * PosScale

\* a length (position units) times a sine value
Mul(a, s) == RDiv(a * s, TrigScale)

\* time * coef as an angle, coef given in 1/10000 (0.0005 is 5)
TimeAngle(t, coef) == (t * coef) \div (10 * TimeScale)

\* ------------------------------------------------------- vector utilities

\* normalize: a unit vector in 1/TrigScale; the zero vector for length 0
normalize(v) ==
    Let(Hypot(v.x, v.y), LAMBDA len :
        IF len = 0 THEN [x |-> 0, y |-> 0]
        ELSE [x |-> RDiv(v.x * TrigScale, len), y |-> RDiv(v.y * TrigScale, len)])

getNormal(v) == [x |-> -v.y, y |-> v.x]

segmentsPerNode == 10

\* The Catmull-Rom weights at t = j / segmentsPerNode, times 2000.
f0(j) == -(j * j * j) + 20 * j * j - 100 * j
f1(j) == 3 * j * j * j - 50 * j * j + 2000
f2(j) == -3 * j * j * j + 40 * j * j + 100 * j
f3(j) == j * j * j - 10 * j * j

Blend(a0, a1, a2, a3, j) ==
    IF IsNaN(a0) \/ IsNaN(a1) \/ IsNaN(a2) \/ IsNaN(a3) THEN NaN
    ELSE RDiv(a0 * f0(j) + a1 * f1(j) + a2 * f2(j) + a3 * f3(j), 2000)

catmullRom(p0, p1, p2, p3, j) ==
    [x |-> Blend(p0.x, p1.x, p2.x, p3.x, j), y |-> Blend(p0.y, p1.y, p2.y, p3.y, j)]

\* ------------------------------------------------------------ SilkNode

LayoutModes == {"default", "tree", "convergence", "dna", "river"}
EffectModes == {"default", "vortex", "surges", "gravity", "particles"}

\* The component's configuration state as first rendered (the useState defaults).
DefaultConfig ==
    [numStreams |-> 3, startX |-> -10, startY |-> 50, endX |-> 110, endY |-> 50,
     layoutMode |-> "default", effectMode |-> "default", audioReactive |-> FALSE,
     enableStars |-> TRUE, starDensity |-> 50, starLuminosity |-> 50,
     starFlickerSpeed |-> 50, enableSun |-> TRUE, silkLuminosity |-> 100,
     silkSpeed |-> 50, variableSpeed |-> FALSE]

\* new SilkNode(x, y, phaseOffsetX, phaseOffsetY, streamIndex); id is the identity
\* of the object created.
SilkNode(x, y, phaseOffsetX, phaseOffsetY, streamIndex, id) ==
    [id |-> id, x |-> x, y |-> y, ox |-> x, oy |-> y, vx |-> 0, vy |-> 0,
     phaseOffsetX |-> phaseOffsetX, phaseOffsetY |-> phaseOffsetY,
     streamIndex |-> streamIndex]

\* config.audioReactive ? audioSim * 20 : 0, in position units
audioBump(config, audioSim) ==
    IF config.audioReactive THEN RDiv(audioSim * Px(20), TrigScale) ELSE 0

\* The drift of the target away from the origin (driftX, driftY).
drift(node, time, index, config, audioSim) ==
    Let(audioBump(config, audioSim), LAMBDA bump :
        IF config.layoutMode = "dna"
        THEN Let2(index * 200 - TimeAngle(time, 20) + (IF node.streamIndex % 2 = 0 THEN 0 ELSE Pi),
                  Px(60) + bump,
                  LAMBDA dnaPhase, amplitude :
                      [x |-> Mul(amplitude, Cos(dnaPhase)), y |-> Mul(amplitude, Sin(dnaPhase))])
        ELSE IF config.layoutMode = "river"
        THEN [x |-> Mul(Px(20), Sin(TimeAngle(time, 2) + index * 50 + node.phaseOffsetX)),
              y |-> Mul(Px(30), Cos(TimeAngle(time, 3) + index * 50 + node.phaseOffsetY)) + bump]
        ELSE [x |-> Mul(Px(80) + bump, Sin(TimeAngle(time, 5) + index * 100 + node.phaseOffsetX))
                    + Mul(Px(40), Cos(TimeAngle(time, 2) - index * 50 + node.phaseOffsetY)),
              y |-> Mul(Px(120) + bump, Cos(TimeAngle(time, 7) + index * 150 + node.phaseOffsetY))
                    + Mul(Px(60), Sin(TimeAngle(time, 3) + index * 80 + node.phaseOffsetX))])

\* The two gravity wells of a window of the given size.
wells(innerWidth, innerHeight) ==
    << [x |-> (Px(innerWidth) * 3) \div 10, y |-> (Px(innerHeight) * 7) \div 10, mass |-> 60000],
       [x |-> (Px(innerWidth) * 7) \div 10, y |-> (Px(innerHeight) * 3) \div 10, mass |-> 60000] >>

\* if (distSq > 1000)
wellApplies(distSq) == ~IsNaN(distSq) /\ distSq > 1000 * PosScale * PosScale

\* What one well adds to the target.
wellPull(node, well) ==
    Let2(JsSub(well.x, node.x), JsSub(well.y, node.y), LAMBDA dx, dy :
        Let(SumSq(dx, dy), LAMBDA distSq :
            IF wellApplies(distSq)
            THEN Let2(JsDiv(well.mass * PosScale * PosScale * PosScale, distSq), Hypot(dx, dy),
                      LAMBDA force, root :
                          [x |-> JsDiv(JsMul(dx, force), root),
                           y |-> JsDiv(JsMul(dy, force), root)])
            ELSE [x |-> 0, y |-> 0]))

minDist == 200

\* A repulsion gated on dist < minDist alone
repulsionAppliesAtZero(dist) == ~IsNaN(dist) /\ dist < Px(minDist)

\* if (dist < minDist && dist > 0)
repulsionApplies(dist) == ~IsNaN(dist) /\ dist < Px(minDist) /\ dist > 0

\* if (dist < 400 && dist > 10)
vortexApplies(dist) == ~IsNaN(dist) /\ dist < Px(400) /\ dist > Px(10)

\* What the pointer adds to the velocity: the vortex pull and swirl, or the
\* standard repulsion.
mouseForce(dx, dy, dist, config) ==
    IF config.effectMode = "vortex"
    THEN IF vortexApplies(dist)
         THEN Let2(JsDiv(JsMul(50 * PosScale * PosScale, dx), JsMul(dist, dist)),
                   JsDiv(JsMul(50 * PosScale * PosScale, dy), JsMul(dist, dist)),
                   LAMBDA px, py :
                       [x |-> JsAdd(JsSub(0, px), py), y |-> JsSub(JsSub(0, py), px)])
         ELSE [x |-> 0, y |-> 0]
    ELSE IF repulsionApplies(dist)
         THEN Let(RDiv((Px(minDist) - dist) * (Px(minDist) - dist),
                       (Px(minDist) * Px(minDist)) \div 1000),
                  LAMBDA force :
                      [x |-> JsDiv(JsMul(dx, force * 15), JsMul(dist, 1000)),
                       y |-> JsDiv(JsMul(dy, force * 15), JsMul(dist, 1000))])
         ELSE [x |-> 0, y |-> 0]

\* 1 / (the spring rate): 0.005 for river, 0.02 otherwise
springDivisor(config) == IF config.layoutMode = "river" THEN 200 ELSE 50

\* An integration that keeps 0.95 of the velocity
integrateSoft(node, vx, vy) ==
    [node EXCEPT !.x = JsAdd(node.x, vx), !.y = JsAdd(node.y, vy),
                 !.vx = JsScale(vx, 95, 100), !.vy = JsScale(vy, 95, 100)]

\* The end of update: the velocity (vx, vy) is applied and dampened.
integrate(node, vx, vy) ==
    [node EXCEPT !.x = JsAdd(node.x, vx), !.y = JsAdd(node.y, vy),
                 !.vx = JsScale(vx, 9, 10), !.vy = JsScale(vy, 9, 10)]

\* SilkNode.update: the node after one step.
update(node, time, index, mouseX, mouseY, config, audioSim, innerWidth, innerHeight) ==
    Let2(drift(node, time, index, config, audioSim), wells(innerWidth, innerHeight),
         LAMBDA d, w :
    Let2(IF config.effectMode = "gravity" THEN wellPull(node, w[1]) ELSE [x |-> 0, y |-> 0],
         IF config.effectMode = "gravity" THEN wellPull(node, w[2]) ELSE [x |-> 0, y |-> 0],
         LAMBDA g1, g2 :
    Let2(JsAdd(JsAdd(node.ox + d.x, g1.x), g2.x), JsAdd(JsAdd(node.oy + d.y, g1.y), g2.y),
         LAMBDA targetX, targetY :
    Let2(JsSub(node.x, mouseX), JsSub(node.y, mouseY),
         LAMBDA dx, dy :
    Let(mouseForce(dx, dy, Hypot(dx, dy), config),
        LAMBDA m :
            integrate(node,
                JsAdd(JsAdd(node.vx, JsScale(JsSub(targetX, node.x), 1, springDivisor(config))),
                      m.x),
                JsAdd(JsAdd(node.vy, JsScale(JsSub(targetY, node.y), 1, springDivisor(config))),
                      m.y)))))))

\* ------------------------------------------------------------- the state

VARIABLES
    phase,            \* "unmounted", "running", "failed" (no canvas or context), "torn"
    config,           \* configRef.current: the component's configuration state
    pendingNodes,     \* the re-layout effect is scheduled and has not run yet
    pendingStars,     \* the star effect is scheduled and has not run yet
    width, height,    \* the surface size, in pixels
    time,             \* the global clock
    audioSimOffset,
    mouseX, mouseY,   \* the pointer, in position units
    streams,          \* the stream list
    stars,            \* the star list: its batch, its length, its flicker advance
    particles,        \* the live particles
    animationFrameId, \* the id the last requestAnimationFrame returned
    rafQueue,         \* the frame callbacks the browser holds
    nextRafId,
    listeners,        \* the listeners registered on the canvas and the window
    nextNodeId,       \* the identity the next SilkNode created gets
    lastEvent,        \* the handler that ran last
    frameLog,         \* what the last frame rendered
    layoutLog,        \* the layouts computed so far, by configuration and size
    budget            \* how many events of each kind the environment may still deliver

vars == << phase, config, pendingNodes, pendingStars, width, height, time,
           audioSimOffset, mouseX, mouseY, streams, stars, particles,
           animationFrameId, rafQueue, nextRafId, listeners, nextNodeId,
           lastEvent, frameLog, layoutLog, budget >>

\* -------------------------------------------------------------- bounds

MaxFrames == 1
MaxChanges == 1
MaxResizes == 1
MaxMoves == 1
SurgeFrames == 4
SurgeChanges == 3
ParticleFrames == 32
MaxParticles == 12
FadeFrames == 4
FadeChanges == 3
ForceFrames == 2
ForceChanges == 3
SentinelFrames == 2
SentinelChanges == 3

\* The surface sizes a window takes.
Sizes == { <<1000, 800>>, <<801, 601>> }
\* The window the component is mounted on
MountSize == <<1000, 800>>

\* The values Math.random() returns, in 1/RandScale: a handler that draws takes
\* them in a row from a place of this cycle.
RandTable == << 999, 650, 78, 520, 0, 500, 13 >>
RandSeeds == 0 .. Len(RandTable) - 1
\* The places the draws of a layout start from in the component's life
LayoutSeeds == {0, 4}
Rand(r, j) == RandTable[((r + j) % Len(RandTable)) + 1]

\* -------------------------------------------------------- stars, layout

numNodesPerStream == 40

\* initStars: a new batch of floor(width * height / (20000 / (density + 1))) stars
initStars(cfg, w, h, old) ==
    [batch |-> old.batch + 1,
     count |-> (w * h * (cfg.starDensity + 1)) \div 20000,
     flicker |-> 0]

\* A spacing centred on streamCount / 2 with no floor
streamGeometryCentred(cfg, w, h, s) ==
    LET streamCount == cfg.numStreams
        sx == (cfg.startX * Px(w)) \div 100
        sy == (cfg.startY * Px(h)) \div 100
        ex0 == IF cfg.layoutMode = "convergence" THEN Px(w) \div 2
               ELSE (cfg.endX * Px(w)) \div 100
        ey0 == IF cfg.layoutMode = "convergence" THEN Px(h) \div 2
               ELSE (cfg.endY * Px(h)) \div 100
        angle == (s * 2 * Pi) \div streamCount
        localSx == IF cfg.layoutMode = "tree" THEN Px(w) \div 2
                   ELSE IF cfg.layoutMode = "convergence"
                   THEN Px(w) \div 2 + Mul((Px(w) * 6) \div 10, Cos(angle))
                   ELSE sx
        localSy == IF cfg.layoutMode = "tree" THEN (Px(h) * 11) \div 10
                   ELSE IF cfg.layoutMode = "convergence"
                   THEN Px(h) \div 2 + Mul((Px(h) * 6) \div 10, Sin(angle))
                   ELSE sy
        ex == IF cfg.layoutMode = "tree" THEN (s * Px(w)) \div Max(1, streamCount - 1) ELSE ex0
        ey == IF cfg.layoutMode = "tree" THEN -(Px(h) \div 10) ELSE ey0
        perpOffset == IF cfg.layoutMode = "river" THEN (s - streamCount \div 2) * Px(10)
                      ELSE IF cfg.layoutMode = "dna" THEN 0
                      ELSE ((2 * s - streamCount) * Px(30)) \div 2
    IN  [localSx |-> localSx, localSy |-> localSy, dx |-> ex - localSx, dy |-> ey - localSy,
         perpOffset |-> perpOffset]

\* The geometry of stream s of streamCount: its start, its end and its
\* perpendicular offset (initNodes, the head of the loop over s).
streamGeometry(cfg, w, h, s) ==
    LET streamCount == cfg.numStreams
        sx == (cfg.startX * Px(w)) \div 100
        sy == (cfg.startY * Px(h)) \div 100
        ex0 == IF cfg.layoutMode = "convergence" THEN Px(w) \div 2
               ELSE (cfg.endX * Px(w)) \div 100
        ey0 == IF cfg.layoutMode = "convergence" THEN Px(h) \div 2
               ELSE (cfg.endY * Px(h)) \div 100
        angle == (s * 2 * Pi) \div streamCount
        localSx == IF cfg.layoutMode = "tree" THEN Px(w) \div 2
                   ELSE IF cfg.layoutMode = "convergence"
                   THEN Px(w) \div 2 + Mul((Px(w) * 6) \div 10, Cos(angle))
                   ELSE sx
        localSy == IF cfg.layoutMode = "tree" THEN (Px(h) * 11) \div 10
                   ELSE IF cfg.layoutMode = "convergence"
                   THEN Px(h) \div 2 + Mul((Px(h) * 6) \div 10, Sin(angle))
                   ELSE sy
        ex == IF cfg.layoutMode = "tree" THEN (s * Px(w)) \div Max(1, streamCount - 1) ELSE ex0
        ey == IF cfg.layoutMode = "tree" THEN -(Px(h) \div 10) ELSE ey0
        perpOffset == IF cfg.layoutMode = "river" THEN (s - streamCount \div 2) * Px(10)
                      ELSE IF cfg.layoutMode = "dna" THEN 0
                      ELSE (s - streamCount \div 2) * Px(30)
    IN  [localSx |-> localSx, localSy |-> localSy, dx |-> ex - localSx, dy |-> ey - localSy,
         perpOffset |-> perpOffset]

\* A loop over i that hands out the nodes of the first layout again
streamNodesReused(cfg, w, h, s, idBase) ==
    Let(streamGeometry(cfg, w, h, s), LAMBDA g :
    Let(getNormal(normalize([x |-> g.dx, y |-> g.dy])), LAMBDA streamNormal :
        [k \in 1 .. numNodesPerStream |->
            SilkNode(g.localSx + RDiv((k - 1) * g.dx, numNodesPerStream - 1)
                         + Mul(g.perpOffset, streamNormal.x),
                     g.localSy + RDiv((k - 1) * g.dy, numNodesPerStream - 1)
                         + Mul(g.perpOffset, streamNormal.y),
                     (s * 4 * Pi) \div cfg.numStreams,
                     (s * 2 * Pi) \div cfg.numStreams + 1000,
                     s,
                     1 + s * numNodesPerStream + (k - 1))]))

\* The nodes of stream s (initNodes, the loop over i).
streamNodes(cfg, w, h, s, idBase) ==
    Let(streamGeometry(cfg, w, h, s), LAMBDA g :
    Let(getNormal(normalize([x |-> g.dx, y |-> g.dy])), LAMBDA streamNormal :
        [k \in 1 .. numNodesPerStream |->
            SilkNode(g.localSx + RDiv((k - 1) * g.dx, numNodesPerStream - 1)
                         + Mul(g.perpOffset, streamNormal.x),
                     g.localSy + RDiv((k - 1) * g.dy, numNodesPerStream - 1)
                         + Mul(g.perpOffset, streamNormal.y),
                     (s * 4 * Pi) \div cfg.numStreams,
                     (s * 2 * Pi) \div cfg.numStreams + 1000,
                     s,
                     idBase + s * numNodesPerStream + (k - 1))]))

\* A layout whose start is jittered by a draw
initNodesJitter(cfg, w, h, mx, r, idBase) ==
    Fix([k \in 1 .. cfg.numStreams |->
        [nodes |-> Fix(streamNodes([cfg EXCEPT !.startY = @ + (Rand(r, 0) % 7)],
                                   w, h, k - 1, idBase)),
         colorPhase |-> (k - 1) * 3,
         surgeTime |-> (Rand(r, 3 * (k - 1)) * 10000 * TimeScale) \div RandScale,
         speedMultiplier |-> 500 + (Rand(r, 3 * (k - 1) + 1) * 3) \div 2,
         localTime |-> (Rand(r, 3 * (k - 1) + 2) * 10000 * TimeScale) \div RandScale]])

\* initNodes: the new stream list. r is where its Math.random() draws start;
\* mx is the pointer (read by the branch that does nothing); colorPhase is in 1/10.
initNodes(cfg, w, h, mx, r, idBase) ==
    Fix([k \in 1 .. cfg.numStreams |->
        [nodes |-> Fix(streamNodes(cfg, w, h, k - 1, idBase)),
         colorPhase |-> (k - 1) * 3,
         surgeTime |-> (Rand(r, 3 * (k - 1)) * 10000 * TimeScale) \div RandScale,
         speedMultiplier |-> 500 + (Rand(r, 3 * (k - 1) + 1) * 3) \div 2,
         localTime |-> (Rand(r, 3 * (k - 1) + 2) * 10000 * TimeScale) \div RandScale]])

\* ------------------------------------------------------------ the frame

\* A step that does not read the speed
frameStepFlat(cfg, stream) == 16 * TimeScale

\* 16 * globalSpeedFactor * strandMultiplier
frameStep(cfg, stream) ==
    RDiv(((16 * TimeScale) \div 50) * cfg.silkSpeed
            * (IF cfg.variableSpeed THEN stream.speedMultiplier ELSE 1000), 1000)

\* isSurging, for the stream clock sTime
isSurgingAt(cfg, sTime, surgeTime) == cfg.effectMode = "surges" /\ sTime > surgeTime

\* A rescheduling that does not wait for the window to end
nextSurgeTimeEarly(cfg, sTime, surgeTime, rnd) ==
    IF cfg.effectMode = "surges" /\ sTime > surgeTime
    THEN sTime + 2000 * TimeScale + (rnd * 8000 * TimeScale) \div RandScale
    ELSE surgeTime

\* The stream's surgeTime after the frame; rnd is the Math.random() drawn.
nextSurgeTime(cfg, sTime, surgeTime, rnd) ==
    IF cfg.effectMode = "surges" /\ sTime > surgeTime /\ sTime > surgeTime + 800 * TimeScale
    THEN sTime + 2000 * TimeScale + (rnd * 8000 * TimeScale) \div RandScale
    ELSE surgeTime

\* points.length for a stream of these nodes
numPoints(nodes) == segmentsPerNode * (Len(nodes) - 1) + 1

\* A sampler whose neighbour indices wrap around the ends
curvePointWrap(nodes, k) ==
    Let2(Len(nodes), k \div segmentsPerNode, LAMBDA n, i :
        IF k = segmentsPerNode * (n - 1) THEN [x |-> nodes[n].x, y |-> nodes[n].y]
        ELSE catmullRom(nodes[((i - 1 + n) % n) + 1], nodes[i + 1], nodes[i + 2],
                        nodes[((i + 2) % n) + 1], k % segmentsPerNode))

\* points[k] (k from 0): the sampled curve
curvePoint(nodes, k) ==
    Let2(Len(nodes), k \div segmentsPerNode, LAMBDA n, i :
        IF k = segmentsPerNode * (n - 1) THEN [x |-> nodes[n].x, y |-> nodes[n].y]
        ELSE catmullRom(nodes[Max(0, i - 1) + 1], nodes[i + 1], nodes[i + 2],
                        nodes[Min(n - 1, i + 2) + 1], k % segmentsPerNode))

points(nodes) == [k \in 1 .. numPoints(nodes) |-> curvePoint(nodes, k - 1)]

\* progress * c as an angle, for progress = i / n
ProgressAngle(i, n, c) == (i * c * 1000) \div n

\* driftSpeed, as an angle
driftSpeed(cfg, sTime, isSurging) ==
    (IF isSurging THEN 3 ELSE 1)
        * (sTime \div (IF cfg.layoutMode = "river" THEN TimeScale ELSE TimeScale \div 5))

barcodeNoise(i, n, ds, streamOffset) ==
    Sin(ProgressAngle(i, n, 1200) - ds * 2 + streamOffset)
        + Sin(ProgressAngle(i, n, 2500) - ds * 4 + streamOffset) \div 2

sliceNoise(i, n, ds, streamOffset) ==
    Sin(ProgressAngle(i, n, 1500) - ds * 3 + streamOffset * 2)
        + Cos(ProgressAngle(i, n, 2800) - ds * 5)

\* Whether the loop over the curve points spawns particles at point i (of n):
\* li is the Math.random() of lineIntensity, gate the one of the spawn.
spawnsAt(cfg, stream, sTime, isSurging, i, n, li, gate) ==
    Let2(driftSpeed(cfg, sTime, isSurging), stream.colorPhase * 10000,
         LAMBDA ds, streamOffset :
            /\ ~(barcodeNoise(i, n, ds, streamOffset) < -600 /\ ~isSurging)
            /\ (sliceNoise(i, n, ds, streamOffset) > 0 \/ isSurging)
            /\ (IF isSurging THEN 1000 ELSE li) > 800
            /\ cfg.effectMode = "particles"
            /\ i * 100 > 98 * n
            /\ gate > 600)

\* spawnParticles(x, y): three particles, their draws taken from place r on
spawnParticles(x, y, r, now) ==
    [q \in 1 .. 3 |->
        [x |-> x, y |-> y,
         vx |-> RDiv((Rand(r, 4 * (q - 1)) - 500) * 4 * PosScale, RandScale),
         vy |-> RDiv((Rand(r, 4 * (q - 1) + 1) - 500) * 4 * PosScale, RandScale),
         life |-> 0,
         maxLife |-> 30 * RandScale + Rand(r, 4 * (q - 1) + 2) * 40,
         size |-> RandScale + Rand(r, 4 * (q - 1) + 3) * 2,
         born |-> now]]

\* The curve points after which progress > 0.98 can hold
terminus(n) == { i \in 0 .. n - 1 : i * 100 > 98 * n }

\* The first of them (n if there is none)
firstTerminus(n) ==
    Let(terminus(n), LAMBDA T : IF T = {} THEN n ELSE CHOOSE i \in T : \A k \in T : i <= k)

\* The particles stream sIdx spawns in a frame, over the points from i on
RECURSIVE spawned(_, _, _, _, _, _, _, _)
spawned(cfg, stream, sIdx, sTime, isSurging, i, r, now) ==
    Let(numPoints(stream.nodes), LAMBDA n :
    Let2(r + sIdx + 14 * (n - 1 - i), curvePoint(stream.nodes, Min(i, n - 1)), LAMBDA base, p :
        IF i >= n THEN << >>
        ELSE (IF spawnsAt(cfg, stream, sTime, isSurging, i, n, Rand(base, 0), Rand(base, 1))
              THEN spawnParticles(p.x, p.y, base + 2, now) ELSE << >>)
             \o spawned(cfg, stream, sIdx, sTime, isSurging, i + 1, r, now)))

\* One stream in one frame (the body of streams.forEach): the stream after it,
\* whether it was drawn surging, the particles it spawned.
renderStream(cfg, stream, sIdx, mx, my, audio, w, h, r, now) ==
    Let(stream.localTime + frameStep(cfg, stream), LAMBDA sTime :
    Let2([stream EXCEPT
             !.localTime = sTime,
             !.nodes = Fix([i \in 1 .. Len(stream.nodes) |->
                              update(stream.nodes[i], sTime, i - 1, mx, my, cfg, audio, w, h)])],
         isSurgingAt(cfg, sTime, stream.surgeTime),
         LAMBDA moved, isSurging :
            [stream |-> [moved EXCEPT !.surgeTime =
                            nextSurgeTime(cfg, sTime, stream.surgeTime, Rand(r, sIdx))],
             isSurging |-> isSurging,
             sTime |-> sTime,
             surgeTime |-> stream.surgeTime,
             spawn |-> IF cfg.effectMode = "particles"
                       THEN spawned(cfg, moved, sIdx, sTime, isSurging,
                                    firstTerminus(numPoints(stream.nodes)), r, now)
                       ELSE << >>]))

\* alpha = 1 - life / maxLife, times maxLife (life in frames, maxLife in 1/RandScale)
alpha(life, maxLife) == maxLife - life * RandScale

\* A splice on alpha < 0
expiredLate(p) == alpha(p.life, p.maxLife) < 0

\* if (alpha <= 0) particles.splice(i, 1)
expired(p) == alpha(p.life, p.maxLife) <= 0

\* The particle moved and aged by one frame
aged(p) == [p EXCEPT !.x = p.x + p.vx, !.y = p.y + p.vy, !.life = p.life + 1]

\* Render Particles: every particle aged, the expired ones spliced out
particleFrame(parts) ==
    SelectSeq([i \in 1 .. Len(parts) |-> aged(parts[i])], LAMBDA p : ~expired(p))

\* Math.sin(time * 0.01) * Math.sin(time * 0.003) * 0.5 + 0.5, or 0
audioSim(cfg, t) ==
    IF cfg.audioReactive THEN RDiv(Sin(t * 10) * Sin(t * 3), 2 * TrigScale) + TrigScale \div 2
    ELSE 0

\* The particles the streams from k on spawned in a frame
RECURSIVE allSpawn(_, _)
allSpawn(out, k) == IF k > Len(out) THEN << >> ELSE out[k].spawn \o allSpawn(out, k + 1)

\* The nodes the pointer is on, and the nodes within a well's gate, as the
\* frame finds them
zeroDist(strs, mx, my) ==
    { ki \in { <<k, i>> : k \in 1 .. Len(strs), i \in 1 .. numNodesPerStream } :
        strs[ki[1]].nodes[ki[2]].x = mx /\ strs[ki[1]].nodes[ki[2]].y = my }
nearWell(strs, ws) ==
    { ki \in { <<k, i>> : k \in 1 .. Len(strs), i \in 1 .. numNodesPerStream } :
        \E n \in 1 .. 2 :
            SumSq(ws[n].x - strs[ki[1]].nodes[ki[2]].x, ws[n].y - strs[ki[1]].nodes[ki[2]].y)
                <= 1000 * PosScale * PosScale }

\* render: one frame on the state given; r is where its Math.random() draws start.
render(cfg, t, strs, sts, parts, w, h, mx, my, r) ==
    Let2(t + 16, audioSim(cfg, t + 16), LAMBDA now, audio :
    Let(Fix([k \in 1 .. Len(strs) |->
                renderStream(cfg, strs[k], k - 1, mx, my, audio, w, h, r, now)]),
        LAMBDA out :
    Let(IF cfg.effectMode = "particles"
        THEN particleFrame(parts \o allSpawn(out, 1))
        ELSE parts \o allSpawn(out, 1),
        LAMBDA kept :
            [time |-> now,
             audioSimOffset |-> audio,
             streams |-> Fix([k \in 1 .. Len(strs) |-> out[k].stream]),
             stars |-> IF cfg.enableStars
                       THEN [sts EXCEPT !.flicker = sts.flicker + cfg.starFlickerSpeed]
                       ELSE sts,
             particles |-> kept,
             frameLog |->
                [streams |-> [k \in 1 .. Len(strs) |->
                                 [isSurging |-> out[k].isSurging, sTime |-> out[k].sTime,
                                  surgeTime |-> out[k].surgeTime]],
                 mode |-> cfg.effectMode,
                 zeroDist |-> zeroDist(strs, mx, my),
                 nearWell |-> IF cfg.effectMode = "gravity" THEN nearWell(strs, wells(w, h))
                              ELSE {},
                 drawn |-> IF cfg.effectMode = "particles"
                           THEN [i \in 1 .. Len(kept) |-> alpha(kept[i].life, kept[i].maxLife)]
                           ELSE << >>]])))

NoFrame == [streams |-> << >>, mode |-> "none", zeroDist |-> {}, nearWell |-> {},
            drawn |-> << >>]

\* The node origins of a stream list, stream by stream
origins(strs) ==
    [k \in 1 .. Len(strs) |->
        [i \in 1 .. Len(strs[k].nodes) |-> << strs[k].nodes[i].ox, strs[k].nodes[i].oy >>]]

\* --------------------------------------------------------- the handlers

\* A dependency list that also names the effect
GeometryDepsWide == {"numStreams", "startX", "startY", "endX", "endY", "layoutMode", "effectMode"}

\* The dependencies of the re-layout effect
GeometryDeps == {"numStreams", "startX", "startY", "endX", "endY", "layoutMode"}

\* One entry of the layout log: what initNodes was run on (the configuration, the
\* surface, the pointer, the place of its random draws) and the list it made
layoutEntry(cfg, w, h, mx, r, strs) ==
    [cfg |-> cfg, w |-> w, h |-> h, mx |-> mx, r |-> r, streams |-> strs]

\* Where the pointer can be put: a fixed place, and the place of a node of the
\* first stream
PointerTargets ==
    { << Px(500), Px(400) >> }
        \cup { << streams[k].nodes[14].x, streams[k].nodes[14].y >> : k \in 1 .. Min(1, Len(streams)) }

\* The component as constructed, before its effects have run
Start ==
    /\ phase = "unmounted"
    /\ config = DefaultConfig
    /\ pendingNodes = FALSE
    /\ pendingStars = FALSE
    /\ width = 0
    /\ height = 0
    /\ time = 0
    /\ audioSimOffset = 0
    /\ mouseX = Px(-1000)
    /\ mouseY = Px(-1000)
    /\ streams = << >>
    /\ stars = [batch |-> 0, count |-> 0, flicker |-> 0]
    /\ particles = << >>
    /\ animationFrameId = 0
    /\ rafQueue = {}
    /\ nextRafId = 1
    /\ listeners = {}
    /\ nextNodeId = 1
    /\ lastEvent = "none"
    /\ frameLog = NoFrame
    /\ layoutLog = << >>

\* The canvas effect runs: the listeners are registered, resize() lays the surface
\* out and render() draws the first frame and requests the next. Without a canvas
\* or a 2d context (ok = FALSE) the effect returns before any of it.
Mount(ok, size, r) ==
    /\ phase = "unmounted"
    /\ lastEvent' = "mount"
    /\ UNCHANGED << config, pendingNodes, pendingStars, mouseX, mouseY, budget >>
    /\ IF ~ok
       THEN /\ phase' = "failed"
            /\ UNCHANGED << width, height, time, audioSimOffset, streams, stars, particles,
                            animationFrameId, rafQueue, nextRafId, listeners, nextNodeId,
                            frameLog, layoutLog >>
       ELSE \E laid \in {initNodes(config, size[1], size[2], mouseX, r, nextNodeId)} :
            \E f \in {render(config, time, laid, initStars(config, size[1], size[2], stars),
                             particles, size[1], size[2], mouseX, mouseY, r)} :
                /\ phase' = "running"
                /\ listeners' = {"mousemove", "mouseleave", "resize"}
                /\ width' = size[1]
                /\ height' = size[2]
                /\ nextNodeId' = nextNodeId + config.numStreams * numNodesPerStream
                /\ layoutLog' = Append(layoutLog, layoutEntry(config, size[1], size[2], mouseX, r, laid))
                /\ time' = f.time
                /\ audioSimOffset' = f.audioSimOffset
                /\ streams' = f.streams
                /\ stars' = f.stars
                /\ particles' = f.particles
                /\ frameLog' = f.frameLog
                /\ animationFrameId' = nextRafId
                /\ rafQueue' = rafQueue \cup {nextRafId}
                /\ nextRafId' = nextRafId + 1

\* The browser runs a frame callback it holds: render, which requests the next one.
Tick(r) ==
    /\ rafQueue # {}
    /\ budget.frames > 0
    /\ budget' = [budget EXCEPT !.frames = @ - 1]
    /\ \E id \in rafQueue :
        \E f \in {render(config, time, streams, stars, particles, width, height,
                         mouseX, mouseY, r)} :
            /\ Len(f.particles) <= budget.particles
            /\ time' = f.time
            /\ audioSimOffset' = f.audioSimOffset
            /\ streams' = f.streams
            /\ stars' = f.stars
            /\ particles' = f.particles
            /\ frameLog' = f.frameLog
            /\ animationFrameId' = nextRafId
            /\ rafQueue' = (rafQueue \ {id}) \cup {nextRafId}
            /\ nextRafId' = nextRafId + 1
    /\ lastEvent' = "frame"
    /\ UNCHANGED << phase, config, pendingNodes, pendingStars, width, height, mouseX, mouseY,
                    listeners, nextNodeId, layoutLog >>

\* The window's resize event: resize()
WindowResize(size, r) ==
    /\ "resize" \in listeners
    /\ budget.resizes > 0
    /\ budget' = [budget EXCEPT !.resizes = @ - 1]
    /\ width' = size[1]
    /\ height' = size[2]
    /\ stars' = initStars(config, size[1], size[2], stars)
    /\ streams' = initNodes(config, size[1], size[2], mouseX, r, nextNodeId)
    /\ nextNodeId' = nextNodeId + config.numStreams * numNodesPerStream
    /\ layoutLog' = Append(layoutLog, layoutEntry(config, size[1], size[2], mouseX, r, streams'))
    /\ lastEvent' = "resize"
    /\ UNCHANGED << phase, config, pendingNodes, pendingStars, time, audioSimOffset, mouseX,
                    mouseY, particles, animationFrameId, rafQueue, nextRafId, listeners,
                    frameLog >>

\* The canvas's mousemove event: handleCanvasMouseMove
MouseMove(pos) ==
    /\ "mousemove" \in listeners
    /\ budget.moves > 0
    /\ budget' = [budget EXCEPT !.moves = @ - 1]
    /\ mouseX' = pos[1]
    /\ mouseY' = pos[2]
    /\ lastEvent' = "mousemove"
    /\ UNCHANGED << phase, config, pendingNodes, pendingStars, width, height, time,
                    audioSimOffset, streams, stars, particles, animationFrameId, rafQueue,
                    nextRafId, listeners, nextNodeId, frameLog, layoutLog >>

\* The canvas's mouseleave event: handleMouseLeave
MouseLeave ==
    /\ "mouseleave" \in listeners
    /\ mouseX' = Px(-1000)
    /\ mouseY' = Px(-1000)
    /\ lastEvent' = "mouseleave"
    /\ UNCHANGED << phase, config, pendingNodes, pendingStars, width, height, time,
                    audioSimOffset, streams, stars, particles, animationFrameId, rafQueue,
                    nextRafId, listeners, nextNodeId, frameLog, layoutLog, budget >>

\* The configuration collaborator sets one value: the component renders again
\* (configRef.current is assigned) and the effects whose dependencies changed are
\* scheduled. React runs the effects of a render before the next render.
ConfigChange(field, value) ==
    /\ phase \in {"running", "failed"}
    /\ ~pendingNodes /\ ~pendingStars
    /\ budget.changes > 0
    /\ value # config[field]
    /\ budget' = [budget EXCEPT !.changes = @ - 1]
    /\ config' = [config EXCEPT ![field] = value]
    /\ pendingNodes' = (field \in GeometryDeps)
    /\ pendingStars' = (field = "starDensity")
    /\ lastEvent' = "config"
    /\ UNCHANGED << phase, width, height, time, audioSimOffset, mouseX, mouseY, streams,
                    stars, particles, animationFrameId, rafQueue, nextRafId, listeners,
                    nextNodeId, frameLog, layoutLog >>

\* The scheduled effects run: initNodesRef.current() and initStarsRef.current(),
\* which are set once the canvas effect has run to its end.
RunEffects(r) ==
    /\ phase \in {"running", "failed"}
    /\ pendingNodes \/ pendingStars
    /\ pendingNodes' = FALSE
    /\ pendingStars' = FALSE
    /\ IF pendingNodes /\ phase = "running"
       THEN /\ streams' = initNodes(config, width, height, mouseX, r, nextNodeId)
            /\ nextNodeId' = nextNodeId + config.numStreams * numNodesPerStream
            /\ layoutLog' = Append(layoutLog, layoutEntry(config, width, height, mouseX, r, streams'))
       ELSE UNCHANGED << streams, nextNodeId, layoutLog >>
    /\ IF pendingStars /\ phase = "running"
       THEN stars' = initStars(config, width, height, stars)
       ELSE UNCHANGED stars
    /\ lastEvent' = "effects"
    /\ UNCHANGED << phase, config, width, height, time, audioSimOffset, mouseX, mouseY,
                    particles, animationFrameId, rafQueue, nextRafId, listeners, frameLog,
                    budget >>

\* A cancellation that leaves the request with the browser
cancelAnimationFrameLost(queue, id) == queue

\* cancelAnimationFrame(id)
cancelAnimationFrame(queue, id) == queue \ {id}

\* The listeners left once the cleanup has removed its three
removeListeners(ls) == ls \ {"resize", "mousemove", "mouseleave"}

\* The host view is torn down: the canvas effect's cleanup runs (there is none
\* when the effect returned early).
Teardown ==
    /\ phase \in {"running", "failed"}
    /\ ~pendingNodes /\ ~pendingStars
    /\ phase' = "torn"
    /\ IF phase = "running"
       THEN /\ listeners' = removeListeners(listeners)
            /\ rafQueue' = cancelAnimationFrame(rafQueue, animationFrameId)
       ELSE UNCHANGED << listeners, rafQueue >>
    /\ lastEvent' = "teardown"
    /\ UNCHANGED << config, pendingNodes, pendingStars, width, height, time, audioSimOffset,
                    mouseX, mouseY, streams, stars, particles, animationFrameId, nextRafId,
                    nextNodeId, frameLog, layoutLog, budget >>

\* The values the configuration collaborator sets
ConfigValues(field) ==
    CASE field = "numStreams" -> {1, 2, 3}
      [] field = "startX" -> {-10, 20}
      [] field = "startY" -> {50, 30}
      [] field = "endX" -> {110, 80}
      [] field = "endY" -> {50, 70}
      [] field = "layoutMode" -> LayoutModes
      [] field = "effectMode" -> EffectModes
      [] field = "starDensity" -> {50, 10}
      [] field = "starLuminosity" -> {50, 100}
      [] field = "starFlickerSpeed" -> {50, 0}
      [] field = "silkLuminosity" -> {100, 300}
      [] field = "silkSpeed" -> {50, 0, 250}
      [] OTHER -> BOOLEAN

ConfigFields == DOMAIN DefaultConfig

\* The draws that can change what a frame leaves behind: a surge is scheduled
\* and particles are spawned under these two effects only (elsewhere the draws
\* pick line intensities, which only the canvas sees).
TickSeeds == IF config.effectMode \in {"surges", "particles"} THEN RandSeeds ELSE {0}

\* ------------------------------------------------------ specifications

\* The component's life: mounted on a window, reconfigured, resized, pointed at,
\* animated and torn down.
Init ==
    /\ Start
    /\ budget = [frames |-> MaxFrames, changes |-> MaxChanges, resizes |-> MaxResizes,
                 moves |-> MaxMoves, particles |-> 0]

Next ==
    \/ \E ok \in BOOLEAN : Mount(ok, MountSize, 0)
    \/ \E r \in TickSeeds : Tick(r)
    \/ \E size \in Sizes, r \in LayoutSeeds : WindowResize(size, r)
    \/ \E pos \in PointerTargets : MouseMove(pos)
    \/ MouseLeave
    \/ \E field \in ConfigFields : \E value \in ConfigValues(field) : ConfigChange(field, value)
    \/ \E r \in LayoutSeeds : RunEffects(r)
    \/ Teardown

Spec == Init /\ [][Next]_vars

\* The surges: the component mounted with any draws, the surge effect chosen,
\* the speed raised, frames run.
SurgeSettings == { <<"effectMode", "surges">>, <<"silkSpeed", 250>>, <<"variableSpeed", TRUE>> }

\* The places a frame's draws start from: the first stream draws the largest
\* value there, or the smallest
SurgeSeeds == {0, 4}

SurgeInit ==
    /\ Start
    /\ budget = [frames |-> SurgeFrames, changes |-> SurgeChanges, resizes |-> 0,
                 moves |-> 0, particles |-> 0]

SurgeNext ==
    \/ \E r \in RandSeeds : Mount(TRUE, MountSize, r)
    \/ \E r \in SurgeSeeds : Tick(r)
    \/ \E c \in SurgeSettings : ConfigChange(c[1], c[2])

SurgeSpec == SurgeInit /\ [][SurgeNext]_vars

\* The particles: the particle effect chosen, frames run whose draws spawn at
\* the terminus (place 0) or do not (place 1).
ParticleSeeds == {0, 1}

ParticleInit ==
    /\ Start
    /\ budget = [frames |-> ParticleFrames, changes |-> 1, resizes |-> 0,
                 moves |-> 0, particles |-> MaxParticles]

ParticleNext ==
    \/ Mount(TRUE, MountSize, 0)
    \/ \E r \in ParticleSeeds : Tick(r)
    \/ ConfigChange("effectMode", "particles")

ParticleSpec == ParticleInit /\ [][ParticleNext]_vars

\* The particles left behind: the effect changed to particles and away again
FadeInit ==
    /\ Start
    /\ budget = [frames |-> FadeFrames, changes |-> FadeChanges, resizes |-> 0,
                 moves |-> 0, particles |-> MaxParticles]

FadeNext ==
    \/ Mount(TRUE, MountSize, 0)
    \/ \E r \in ParticleSeeds : Tick(r)
    \/ \E mode \in {"particles", "default", "vortex"} : ConfigChange("effectMode", mode)

FadeSpec == FadeInit /\ [][FadeNext]_vars

\* The forces: the stream line moved through a gravity well, the effect
\* changed, the pointer put on a node, frames run.
ForceSettings ==
    { <<"startY", 70>>, <<"endY", 70>>, <<"effectMode", "gravity">>, <<"effectMode", "vortex">> }

ForceInit ==
    /\ Start
    /\ budget = [frames |-> ForceFrames, changes |-> ForceChanges, resizes |-> 0,
                 moves |-> MaxMoves, particles |-> 0]

ForceNext ==
    \/ Mount(TRUE, MountSize, 0)
    \/ Tick(0)
    \/ \E pos \in PointerTargets : MouseMove(pos)
    \/ MouseLeave
    \/ \E c \in ForceSettings : ConfigChange(c[1], c[2])
    \/ RunEffects(0)

ForceSpec == ForceInit /\ [][ForceNext]_vars

\* The streams moved to the far corner of a large window: start X and start Y at
\* the low end of their sliders, under the default effect and the vortex
LargeSize == <<2000, 2000>>

SentinelSettings ==
    { <<"startX", -50>>, <<"startY", -50>>, <<"effectMode", "vortex">> }

SentinelInit ==
    /\ Start
    /\ budget = [frames |-> SentinelFrames, changes |-> SentinelChanges, resizes |-> 0,
                 moves |-> MaxMoves, particles |-> 0]

SentinelNext ==
    \/ Mount(TRUE, LargeSize, 0)
    \/ Tick(0)
    \/ \E pos \in PointerTargets : MouseMove(pos)
    \/ MouseLeave
    \/ \E c \in SentinelSettings : ConfigChange(c[1], c[2])
    \/ RunEffects(0)

SentinelSpec == SentinelInit /\ [][SentinelNext]_vars

\* ------------------------------------------------------------ properties

\* C1: under surges, a stream is drawn surging exactly on the frames whose
\* localTime is in the 800 units after its surgeTime.
C1_SurgeWindow ==
    frameLog.mode = "surges" =>
        \A k \in 1 .. Len(frameLog.streams) :
            LET e == frameLog.streams[k] IN
            e.isSurging <=> (e.sTime > e.surgeTime /\ e.sTime <= e.surgeTime + 800 * TimeScale)

\* C2: a frame changes a stream's surgeTime under surges only, only when the
\* stream's localTime is more than 800 past the old surgeTime, and to a time at
\* least 2000 after that localTime.
C2_Reschedule ==
    [][ lastEvent' = "frame" =>
            \A k \in 1 .. Len(streams) :
                LET old == streams[k].surgeTime
                    new == streams'[k].surgeTime
                    lt == streams'[k].localTime
                IN  /\ new # old =>
                        /\ config.effectMode = "surges"
                        /\ lt > old + 800 * TimeScale
                        /\ new > lt
                        /\ new >= lt + 2000 * TimeScale
                    /\ config.effectMode # "surges" => new = old ]_vars

\* A frame has rescheduled a surge
C2_Witness ==
    /\ lastEvent = "frame"
    /\ frameLog.mode = "surges"
    /\ \E k \in 1 .. Len(streams) : frameLog.streams[k].surgeTime # streams[k].surgeTime

\* C3: a live particle has aged by one in every frame since it was spawned, and
\* is gone once that many frames reach its maxLife.
C3_ParticlesExpire ==
    \A i \in 1 .. Len(particles) :
        LET p == particles[i]
            frames == (time - p.born) \div 16 + 1
        IN  /\ p.life = frames
            /\ frames * RandScale < p.maxLife

\* C4: a particle frame ages every particle by one, removes it in the first
\* frame its age reaches maxLife, and draws the others with the alpha
\* 1 - age / maxLife, which is positive and less than the frame before.
C4_Lifecycle ==
    [][ (lastEvent' = "frame" /\ frameLog'.mode = "particles") =>
            LET old == [i \in 1 .. Len(particles) |->
                           [particles[i] EXCEPT !.x = @ + particles[i].vx,
                                                !.y = @ + particles[i].vy,
                                                !.life = @ + 1]]
                survivors == SelectSeq(old, LAMBDA q : q.life * RandScale < q.maxLife)
            IN  /\ Len(survivors) <= Len(particles')
                /\ SubSeq(particles', 1, Len(survivors)) = survivors
                /\ Len(frameLog'.drawn) = Len(particles')
                /\ \A i \in 1 .. Len(particles') :
                    LET q == particles'[i] IN
                    /\ q.life * RandScale < q.maxLife
                    /\ frameLog'.drawn[i] = q.maxLife - q.life * RandScale
                    /\ frameLog'.drawn[i] > 0
                    /\ alpha(q.life, q.maxLife) < alpha(q.life - 1, q.maxLife) ]_vars

\* A particle frame has removed a particle of its three and kept the others
C4_Witness ==
    /\ lastEvent = "frame"
    /\ frameLog.mode = "particles"
    /\ particles # << >>
    /\ Len(particles) % 3 # 0

\* The node identities of a stream list, in order
idSeq(strs) == [k \in 1 .. Len(strs) |-> [i \in 1 .. Len(strs[k].nodes) |-> strs[k].nodes[i].id]]
ids(strs) == { strs[k].nodes[i].id : k \in 1 .. Len(strs), i \in 1 .. numNodesPerStream }

\* What of a stream list only a layout may set
static(strs) ==
    [k \in 1 .. Len(strs) |->
        [origins |-> origins(strs)[k], ids |-> idSeq(strs)[k],
         colorPhase |-> strs[k].colorPhase, speedMultiplier |-> strs[k].speedMultiplier]]

\* C5: every tree layout of 3 streams puts the first node origin of each stream
\* at (w/2, 1.1h) and the last node origins at x = 0, w/2, w and y = -0.1h.
C5_TreeLayout ==
    \A n \in 1 .. Len(layoutLog) :
        LET e == layoutLog[n] IN
        (e.cfg.layoutMode = "tree" /\ e.cfg.numStreams = 3) =>
            \A k \in 1 .. 3 :
                /\ origins(e.streams)[k][1] = << Px(e.w) \div 2, (Px(e.h) * 11) \div 10 >>
                /\ origins(e.streams)[k][numNodesPerStream]
                       = << ((k - 1) * Px(e.w)) \div 2, -(Px(e.h) \div 10) >>

\* C6: a layout replaces the stream list by numStreams streams of 40 nodes, none
\* of them a node of the list before, each at its origin with velocity zero;
\* a step that is no layout keeps the streams and the nodes and their order.
C6_Relayout ==
    [][ IF Len(layoutLog') > Len(layoutLog)
        THEN LET e == layoutLog'[Len(layoutLog')] IN
             /\ e.cfg = config'
             /\ Len(e.streams) = config'.numStreams
             /\ \A k \in 1 .. Len(e.streams) :
                    /\ Len(e.streams[k].nodes) = 40
                    /\ \A i \in 1 .. Len(e.streams[k].nodes) :
                        LET node == e.streams[k].nodes[i] IN
                        /\ node.x = node.ox /\ node.y = node.oy
                        /\ node.vx = 0 /\ node.vy = 0
             /\ ids(e.streams) \cap ids(streams) = {}
             /\ idSeq(streams') = idSeq(e.streams)
        ELSE idSeq(streams') = idSeq(streams) ]_vars

\* A re-layout run by the effects has replaced a list of 3 streams by one of 2
C6_Witness ==
    /\ lastEvent = "effects"
    /\ Len(layoutLog) = 2
    /\ Len(layoutLog[1].streams) = 3
    /\ Len(streams) = 2

\* The same configuration on the same surface
sameInput(a, b) == a.cfg = b.cfg /\ a.w = b.w /\ a.h = b.h

\* A laid-out list without node identities and without the named stream fields
shape(strs, drawn) ==
    [k \in 1 .. Len(strs) |->
        [nodes |-> [i \in 1 .. Len(strs[k].nodes) |-> [strs[k].nodes[i] EXCEPT !.id = 0]],
         colorPhase |-> strs[k].colorPhase,
         surgeTime |-> IF "surgeTime" \in drawn THEN 0 ELSE strs[k].surgeTime,
         speedMultiplier |-> IF "speedMultiplier" \in drawn THEN 0 ELSE strs[k].speedMultiplier,
         localTime |-> IF "localTime" \in drawn THEN 0 ELSE strs[k].localTime]]

\* C7 (as stated): two layouts of the same configuration on the same surface
\* make the same origins, and differ in surgeTime and speedMultiplier only.
C7_OnlySurgeAndSpeedDrawn ==
    \A a \in 1 .. Len(layoutLog), b \in 1 .. Len(layoutLog) :
        sameInput(layoutLog[a], layoutLog[b]) =>
            /\ origins(layoutLog[a].streams) = origins(layoutLog[b].streams)
            /\ shape(layoutLog[a].streams, {"surgeTime", "speedMultiplier"})
                   = shape(layoutLog[b].streams, {"surgeTime", "speedMultiplier"})

\* C7 (amended): two layouts of the same configuration on the same surface make
\* the same origins, and differ in surgeTime, speedMultiplier and localTime only.
C7_LayoutDeterministic ==
    \A a \in 1 .. Len(layoutLog), b \in 1 .. Len(layoutLog) :
        sameInput(layoutLog[a], layoutLog[b]) =>
            /\ origins(layoutLog[a].streams) = origins(layoutLog[b].streams)
            /\ shape(layoutLog[a].streams, {"surgeTime", "speedMultiplier", "localTime"})
                   = shape(layoutLog[b].streams, {"surgeTime", "speedMultiplier", "localTime"})

\* Two layouts of one configuration and surface, with other draws, another
\* pointer and another list before
C7_Witness ==
    \E a \in 1 .. Len(layoutLog), b \in 1 .. Len(layoutLog) :
        /\ a < b
        /\ sameInput(layoutLog[a], layoutLog[b])
        /\ layoutLog[a].r # layoutLog[b].r
        /\ layoutLog[a].mx # layoutLog[b].mx

\* C8: teardown leaves no frame request with the browser and no handler on the
\* window, and nothing moves once the component is torn down.
C8_Teardown ==
    [][ /\ phase' = "torn" => (rafQueue' = {} /\ listeners' = {})
        /\ phase = "torn" => UNCHANGED << time, streams, stars, particles, mouseX, mouseY,
                                          width, height, frameLog, layoutLog >> ]_vars

\* Torn down between two frame ticks
C8_Witness == phase = "torn" /\ lastEvent = "teardown" /\ time = 32

\* C9: the layout engine runs on mount, on a resize, or in the effects after a
\* change of numStreams, startX, startY, endX, endY or layoutMode; the stars are
\* made anew on mount, on a resize, or after a change of starDensity; any other
\* step leaves origins, node sequences, colorPhase and speedMultiplier alone.
C9_LayoutTriggers ==
    [][ /\ Len(layoutLog') # Len(layoutLog) =>
               \/ lastEvent' \in {"mount", "resize"}
               \/ lastEvent' = "effects" /\ pendingNodes
        /\ (pendingNodes' /\ ~pendingNodes) =>
               \E f \in {"numStreams", "startX", "startY", "endX", "endY", "layoutMode"} :
                   config'[f] # config[f]
        /\ stars'.batch # stars.batch =>
               \/ lastEvent' \in {"mount", "resize"}
               \/ lastEvent' = "effects" /\ pendingStars
        /\ (pendingStars' /\ ~pendingStars) => config'.starDensity # config.starDensity
        /\ Len(layoutLog') = Len(layoutLog) => static(streams') = static(streams) ]_vars

\* A frame has run after a change of the effect, on the list the mount laid out
C9_Witness ==
    /\ lastEvent = "frame"
    /\ config.effectMode # "default"
    /\ Len(layoutLog) = 1

\* C11: one default-layout stream from (-10, 50)% to (110, 50)% on a 1000x800
\* surface has 40 nodes, node i (0..39) with origin (-100 + 1200 * i / 39, 400).
C11_SingleStreamLine ==
    \A n \in 1 .. Len(layoutLog) :
        LET e == layoutLog[n] IN
        (/\ e.cfg.numStreams = 1 /\ e.cfg.layoutMode = "default"
         /\ e.cfg.startX = -10 /\ e.cfg.startY = 50 /\ e.cfg.endX = 110 /\ e.cfg.endY = 50
         /\ e.w = 1000 /\ e.h = 800) =>
            /\ Len(e.streams) = 1
            /\ Len(e.streams[1].nodes) = 40
            /\ \A i \in 0 .. 39 :
                LET node == e.streams[1].nodes[i + 1] IN
                /\ node.oy = 400 * PosScale
                /\ 2 * Abs(39 * (node.ox + 100 * PosScale) - 1200 * PosScale * i) <= 39

\* The re-layout effect has laid out a single default stream on 1000x800
C11_Witness ==
    /\ lastEvent = "effects"
    /\ config.numStreams = 1
    /\ width = 1000 /\ height = 800
    /\ Len(streams) = 1
    /\ layoutLog[Len(layoutLog)].cfg = [DefaultConfig EXCEPT !.numStreams = 1]

\* C12 (as stated): every frame makes every stream's localTime greater.
C12_StrictlyIncreases ==
    [][ lastEvent' = "frame" =>
            \A k \in 1 .. Len(streams) : streams'[k].localTime > streams[k].localTime ]_vars

\* C12 (amended): a frame advances a stream's localTime by 16 * silkSpeed / 50,
\* times speedMultiplier (in [0.5, 2.0)) under variableSpeed: never backwards,
\* forwards when silkSpeed > 0, not at all when silkSpeed = 0.
C12_LocalTimeStep ==
    [][ lastEvent' = "frame" =>
            \A k \in 1 .. Len(streams) :
                LET d == streams'[k].localTime - streams[k].localTime
                    m == streams[k].speedMultiplier
                IN  /\ d >= 0
                    /\ config.silkSpeed > 0 => d > 0
                    /\ config.silkSpeed = 0 => d = 0
                    /\ ~config.variableSpeed => 50 * d = 16 * TimeScale * config.silkSpeed
                    /\ config.variableSpeed =>
                           /\ m >= 500 /\ m < 2000
                           /\ 2 * Abs(50 * 1000 * d - 16 * TimeScale * config.silkSpeed * m)
                                  <= 50 * 1000 ]_vars

\* A frame has run under variableSpeed
C12_Witness ==
    /\ lastEvent = "frame"
    /\ config.variableSpeed
    /\ \E k \in 1 .. Len(streams) : streams[k].speedMultiplier # 1000

\* Prior velocities given to a node at rest on its target
DampVelocities == { <<100, -37>>, <<-5, 0>>, <<0, 250>> }

\* The node moved onto the target origin + d, with velocity v
atTarget(node, d, v) ==
    [node EXCEPT !.x = node.ox + d.x, !.y = node.oy + d.y, !.vx = v[1], !.vy = v[2]]

\* The pointer is outside the interaction radius of the node (or on it)
pointerOutside(node, mx, my, cfg) ==
    LET dist == Hypot(node.x - mx, node.y - my) IN
    IF cfg.effectMode = "vortex" THEN ~(dist > Px(10) /\ dist < Px(400))
    ELSE ~(dist > 0 /\ dist < Px(200))

\* v * 0.90, to the nearest unit
damped(after, v) == 2 * Abs(10 * after - 9 * v) <= 10

\* C13: a frame keeps every node's origin, phase offsets and streamIndex, moves
\* it by the velocity it integrates and leaves 0.90 of that velocity; a node on
\* its drift target, with no gravity well acting and the pointer outside the
\* interaction radius, moves by its prior velocity and keeps 0.90 of it, in
\* every layout mode and effect mode.
C13_Damping ==
    [][ lastEvent' = "frame" =>
            \A k \in 1 .. Len(streams) : \A i \in 1 .. Len(streams[k].nodes) :
                LET node == streams[k].nodes[i]
                    after == streams'[k].nodes[i]
                    sTime == streams'[k].localTime
                    d == drift(node, sTime, i - 1, config, audioSimOffset')
                IN  /\ after.ox = node.ox /\ after.oy = node.oy
                    /\ after.phaseOffsetX = node.phaseOffsetX
                    /\ after.phaseOffsetY = node.phaseOffsetY
                    /\ after.streamIndex = node.streamIndex
                    /\ damped(after.vx, after.x - node.x)
                    /\ damped(after.vy, after.y - node.y)
                    /\ (i \in {1, 14, 40} /\ config.effectMode # "gravity") =>
                           \A v \in DampVelocities :
                               LET rest == atTarget(node, d, v)
                                   out == update(rest, sTime, i - 1, mouseX, mouseY, config,
                                                 audioSimOffset', width, height)
                               IN  pointerOutside(rest, mouseX, mouseY, config) =>
                                       /\ out.x = rest.x + v[1] /\ out.y = rest.y + v[2]
                                       /\ damped(out.vx, v[1]) /\ damped(out.vy, v[2])
                                       /\ [out EXCEPT !.x = 0, !.y = 0, !.vx = 0, !.vy = 0]
                                              = [rest EXCEPT !.x = 0, !.y = 0, !.vx = 0, !.vy = 0]
      ]_vars

\* A frame has moved a node and left it 0.90 of the velocity, with the pointer
\* outside the radius of the node's target
C13_Witness ==
    /\ lastEvent = "frame"
    /\ config.layoutMode = "river"
    /\ \E k \in 1 .. Len(streams) :
           LET node == streams[k].nodes[14] IN
           /\ node.vx # 0 /\ node.vy # 0
           /\ pointerOutside(atTarget(node, drift(node, streams[k].localTime, 13, config,
                                                   audioSimOffset), <<100, -37>>),
                              mouseX, mouseY, config)

\* The position of a node
at(node) == [x |-> node.x, y |-> node.y]

\* C14: the curve sampled from a stream's 40 nodes has 10 * 39 + 1 = 391 points;
\* point 10 * i is node i's position; the points of span i are the Catmull-Rom
\* blend of nodes i - 1, i, i + 1 and i + 2, with node 0 standing for node -1
\* and node 39 for node 40.
C14_CurveSampler ==
    \A k \in 1 .. Len(streams) :
        LET nodes == streams[k].nodes
            n == Len(nodes)
            pts == points(nodes)
        IN  /\ n >= 2
            /\ Len(pts) = 10 * (n - 1) + 1
            /\ n = 40 => Len(pts) = 391
            /\ \A i \in 0 .. n - 1 : pts[10 * i + 1] = at(nodes[i + 1])
            /\ \A i \in 0 .. n - 2 : \A j \in 0 .. 9 :
                   pts[10 * i + j + 1] =
                       catmullRom(nodes[IF i = 0 THEN 1 ELSE i], nodes[i + 1], nodes[i + 2],
                                  nodes[IF i = n - 2 THEN n ELSE i + 3], j)

\* A particle frame has sampled streams whose nodes have left their origins and
\* has spawned particles on the sampled points
C14_Witness ==
    /\ lastEvent = "frame"
    /\ frameLog.mode = "particles"
    /\ particles # << >>
    /\ \A k \in 1 .. Len(streams) :
           /\ at(streams[k].nodes[1]) # at(streams[k].nodes[2])
           /\ streams[k].nodes[1].x # streams[k].nodes[1].ox
           /\ streams[k].nodes[40].y # streams[k].nodes[40].oy

\* The stream list is the one the layout makes of the configuration
consistent(strs, cfg, w, h) ==
    /\ Len(strs) = cfg.numStreams
    /\ origins(strs) = origins(initNodes(cfg, w, h, 0, 0, 1))

absent(mx, my) == mx = Px(-1000) /\ my = Px(-1000)

\* C16: a frame that runs while the pointer is absent finds every node 200 or
\* more (under vortex 400 or more) from (-1000, -1000), and the pointer adds
\* nothing to any node's velocity.
C16_SentinelOutOfReach ==
    [][ (lastEvent' = "frame" /\ absent(mouseX, mouseY)) =>
            \A k \in 1 .. Len(streams) : \A i \in 1 .. Len(streams[k].nodes) :
                LET node == streams[k].nodes[i]
                    dx == node.x - mouseX
                    dy == node.y - mouseY
                    dist == Hypot(dx, dy)
                IN  /\ dist >= (IF config.effectMode = "vortex" THEN Px(400) ELSE Px(200))
                    /\ mouseForce(dx, dy, dist, config) = [x |-> 0, y |-> 0]
      ]_vars

\* The spring step on the target given, followed by integration and damping
springStep(node, targetX, targetY, divisor) ==
    LET vx == JsAdd(node.vx, JsScale(JsSub(targetX, node.x), 1, divisor))
        vy == JsAdd(node.vy, JsScale(JsSub(targetY, node.y), 1, divisor))
    IN  [node EXCEPT !.x = JsAdd(node.x, vx), !.y = JsAdd(node.y, vy),
                     !.vx = JsScale(vx, 9, 10), !.vy = JsScale(vy, 9, 10)]

\* The pull of a well on a node whose squared distance to it is over 1000
pullBeyond(node, well) ==
    LET dx == well.x - node.x
        dy == well.y - node.y
    IN  IF SumSq(dx, dy) > 1000 * PosScale * PosScale
        THEN [x |-> JsDiv(dx * JsDiv(well.mass * PosScale * PosScale * PosScale, SumSq(dx, dy)),
                          Hypot(dx, dy)),
              y |-> JsDiv(dy * JsDiv(well.mass * PosScale * PosScale * PosScale, SumSq(dx, dy)),
                          Hypot(dx, dy))]
        ELSE [x |-> 0, y |-> 0]

\* C10: a frame leaves every node finite; a node the pointer is on, or 200 or
\* more away from (under vortex: within 10 of, or 400 or more away from), takes
\* the spring step alone, on a target that each gravity well pulls only when the
\* squared distance to it is over 1000.
C10_ForceGates ==
    [][ lastEvent' = "frame" =>
            \A k \in 1 .. Len(streams) : \A i \in 1 .. Len(streams[k].nodes) :
                LET node == streams[k].nodes[i]
                    after == streams'[k].nodes[i]
                    dist == Hypot(node.x - mouseX, node.y - mouseY)
                    pointerOff == IF config.effectMode = "vortex"
                                  THEN ~(dist > Px(10) /\ dist < Px(400))
                                  ELSE ~(dist > 0 /\ dist < Px(200))
                    d == drift(node, streams'[k].localTime, i - 1, config, audioSimOffset')
                    w == wells(width, height)
                    g1 == IF config.effectMode = "gravity" THEN pullBeyond(node, w[1])
                          ELSE [x |-> 0, y |-> 0]
                    g2 == IF config.effectMode = "gravity" THEN pullBeyond(node, w[2])
                          ELSE [x |-> 0, y |-> 0]
                IN  /\ ~IsNaN(after.x) /\ ~IsNaN(after.y) /\ ~IsNaN(after.vx) /\ ~IsNaN(after.vy)
                    /\ pointerOff =>
                           after = springStep(node, node.ox + d.x + g1.x + g2.x,
                                              node.oy + d.y + g1.y + g2.y,
                                              IF config.layoutMode = "river" THEN 200 ELSE 50)
      ]_vars

\* A frame under gravity has stepped a node the pointer was on and a node
\* within a well's gate
C10_Witness ==
    /\ lastEvent = "frame"
    /\ frameLog.mode = "gravity"
    /\ frameLog.zeroDist # {}
    /\ frameLog.nearWell # {}

====
